---- MODULE Spec2Model ----
(***************************************************************************)
(* Model of the zerolog-to-slog rewriter (main.go).                        *)
(*                                                                         *)
(* A file is parsed into a tree, RewriteVisitor.Visit is called on the     *)
(* nodes of the tree by dst.Walk and fills the Replacements map,           *)
(* replaceAndPrintDST substitutes the recorded nodes, and the tool may be  *)
(* run again on what it wrote.  Tree nodes are records tagged with their   *)
(* dst type in the field "kind"; the two node types that are used as keys  *)
(* of the Replacements map (ExprStmt, ImportSpec) carry their pointer      *)
(* identity in the field "addr"; a node allocated by Visit gets an address *)
(* no other node has, written new(<address of the node it replaces>).      *)
(***************************************************************************)
EXTENDS Integers, Sequences, FiniteSets, TLC

VARIABLES
    input,          \* the shape the parsed file was generated from (never changes)
    parsed,         \* the tree as parsed (never changes)
    file,           \* the *dst.File being processed (mutated by the apply pass)
    Replacements,   \* RewriteVisitor.Replacements: node address -> replacement node
    todo,           \* nodes dst.Walk still has to hand to Visit, next one first
    pc,             \* position of processFile: "walk", "done" or "panic" ("idle": not run)
    pass,           \* "first" run of the tool, or run "again" on its own output
    funcName,       \* Field Mapper harness: the field method name
    args,           \* Field Mapper harness: the argument list
    attr,           \* Field Mapper harness: the node returned
    mpc             \* Field Mapper harness: "ready" or "converted" ("idle": not run)

vars == <<input, parsed, file, Replacements, todo, pc, pass,
          funcName, args, attr, mpc>>

progVars == <<input, parsed, file, Replacements, todo, pc, pass>>
mapperVars == <<funcName, args, attr, mpc>>

-----------------------------------------------------------------------------
(* Bounds of the checked inputs. *)

\* longest chain of field links between the level call and the terminator
MaxLinks == 2
\* largest number of arguments given to the terminator
MaxTermArgs == 2
\* largest number of arguments given to a field method in the mapper harness
MaxArgs == 3

-----------------------------------------------------------------------------
(* dst node constructors. *)

Nil == [kind |-> "nil"]
Ident(name) == [kind |-> "Ident", name |-> name]
BasicLit(value) == [kind |-> "BasicLit", value |-> value]
SelectorExpr(x, sel) == [kind |-> "SelectorExpr", x |-> x, sel |-> sel]
CallExpr(fun, cargs) == [kind |-> "CallExpr", fun |-> fun, args |-> cargs]
FuncLit(body) == [kind |-> "FuncLit", body |-> body]
ExprStmt(addr, x, decs) == [kind |-> "ExprStmt", addr |-> addr, x |-> x, decs |-> decs]
ImportSpec(addr, path, decs) == [kind |-> "ImportSpec", addr |-> addr, path |-> path, decs |-> decs]

-----------------------------------------------------------------------------
(* The fixed tables and the pure functions of main.go. *)

\* logLevels with Fatal and Panic given levels of their own
logLevelsOwnFatal ==
    [Trace |-> <<"slog", "LevelTrace">>,
     Debug |-> <<"slog", "LevelDebug">>,
     Info  |-> <<"slog", "LevelInfo">>,
     Warn  |-> <<"slog", "LevelWarn">>,
     Error |-> <<"slog", "LevelError">>,
     Fatal |-> <<"slog", "LevelFatal">>,
     Panic |-> <<"slog", "LevelPanic">>]

\* logLevels, each value already split at "." as buildSlogLogAttrsCall does
logLevels ==
    [Trace |-> <<"slog", "LevelTrace">>,
     Debug |-> <<"slog", "LevelDebug">>,
     Info  |-> <<"slog", "LevelInfo">>,
     Warn  |-> <<"slog", "LevelWarn">>,
     Error |-> <<"slog", "LevelError">>,
     Fatal |-> <<"slog", "LevelError">>,
     Panic |-> <<"slog", "LevelError">>]

isLoggerLevel(name) == name \in DOMAIN logLevels

ZerologImportPath == "\"github.com/rs/zerolog/log\""
SlogImportPath == "\"log/slog\""

\* &dst.CallExpr{Fun: slog.<slogAttrFunc>, Args: slogArgs}
SlogAttrCall(slogAttrFunc, slogArgs) ==
    CallExpr(SelectorExpr(Ident("slog"), slogAttrFunc), slogArgs)

\* WrapSecond wrapping the key instead of the value
WrapFirst(conv, a) == <<CallExpr(Ident(conv), <<a[1]>>), a[2]>>

\* append(slogArgs, args[0], &dst.CallExpr{Fun: <conv>, Args: {args[1]}})
WrapSecond(conv, a) == <<a[1], CallExpr(Ident(conv), <<a[2]>>)>>

convertFieldToSlogAttr(name, a) ==
    CASE name = "Bool" -> SlogAttrCall("Bool", a)
      [] name = "Dur" -> SlogAttrCall("Duration", a)
      [] name = "Float32" ->
            IF Len(a) = 2 THEN SlogAttrCall("Float64", WrapSecond("float64", a)) ELSE Nil
      [] name = "Float64" -> SlogAttrCall("Float64", a)
      [] name = "Str" -> SlogAttrCall("String", a)
      [] name = "Int" -> SlogAttrCall("Int", a)
      [] name \in {"Int8", "Int16", "Int32"} ->
            IF Len(a) = 2 THEN SlogAttrCall("Int", WrapSecond("int", a)) ELSE Nil
      [] name = "Int64" -> SlogAttrCall("Int64", a)
      [] name = "Uint64" -> SlogAttrCall("UInt64", a)
      [] name \in {"Uint", "Uint8", "Uint16", "Uint32"} ->
            IF Len(a) = 2 THEN SlogAttrCall("Uint64", WrapSecond("uint64", a)) ELSE Nil
      [] name = "Time" -> SlogAttrCall("Time", a)
      [] name = "Err" -> SlogAttrCall("Any", <<BasicLit("\"err\"")>> \o a)
      [] OTHER ->
            IF Len(a) = 2 THEN SlogAttrCall("Any", a) ELSE Nil

-----------------------------------------------------------------------------
(* Chain Extractor: extractZerologChain. *)

Panic == [kind |-> "panic"]
NoMatch == [level |-> "", message |-> Nil, slogAttrs |-> <<>>]

\* resolveMessage taking the last terminator argument instead of the first
resolveMessageLast(termFunc, termArgs) ==
    IF termFunc = "Msg" \/ termFunc = "Msgf"
      THEN IF Len(termArgs) = 0 THEN Panic ELSE termArgs[Len(termArgs)]
      ELSE BasicLit("\"zerolog event\"")

\* the message of lines 241-245; termArgs[0] of an empty slice panics
resolveMessage(termFunc, termArgs) ==
    IF termFunc = "Msg" \/ termFunc = "Msgf"
      THEN IF Len(termArgs) = 0 THEN Panic ELSE termArgs[1]
      ELSE BasicLit("\"zerolog event\"")

\* slogAttrs after one link: a link the mapper returns nil for adds nothing
prependAttr(attrCall, slogAttrs) ==
    IF attrCall # Nil THEN <<attrCall>> \o slogAttrs ELSE slogAttrs

\* levelReceiverOk without the test of the receiver
levelReceiverAny(selExpr) == TRUE

\* the test that ends the walk at a level-named call
levelReceiverOk(selExpr) == selExpr.x.kind = "Ident"

\* the test that lets the walk go one call further in
linkReceiverOk(selExpr) == selExpr.x.kind = "CallExpr"

\* the for loop of lines 248-273, entered with the call `current`
RECURSIVE chainLoop(_, _, _)
chainLoop(current, message, slogAttrs) ==
    IF current.fun.kind # "SelectorExpr" THEN NoMatch
    ELSE LET selExpr == current.fun
             name == selExpr.sel
         IN IF isLoggerLevel(name)
              THEN IF ~levelReceiverOk(selExpr) THEN NoMatch
                   ELSE [level |-> name, message |-> message, slogAttrs |-> slogAttrs]
              ELSE LET attrCall == convertFieldToSlogAttr(name, current.args)
                       attrs == prependAttr(attrCall, slogAttrs)
                   IN IF ~linkReceiverOk(selExpr) THEN NoMatch
                      ELSE chainLoop(selExpr.x, message, attrs)

extractZerologChain(currentCall, termFunc, termArgs) ==
    LET message == resolveMessage(termFunc, termArgs)
    IN IF message = Panic
         THEN [level |-> "", message |-> Panic, slogAttrs |-> <<>>]
         ELSE chainLoop(currentCall, message, <<>>)

\* the argument list of lines 380-383
logAttrsArgs(levelExpr, message, slogAttrs) ==
    <<Ident("ctx"), levelExpr, message>> \o slogAttrs

buildSlogLogAttrsCall(levelStr, message, slogAttrs) ==
    LET parts == IF levelStr \in DOMAIN logLevels
                   THEN logLevels[levelStr]
                   ELSE <<"slog", "LevelInfo">>
        levelExpr == SelectorExpr(Ident(parts[1]), parts[2])
    IN CallExpr(SelectorExpr(Ident("slog"), "LogAttrs"),
                logAttrsArgs(levelExpr, message, slogAttrs))

-----------------------------------------------------------------------------
(* Statement Matcher: RewriteVisitor.Visit.  The outcome of one call:      *)
(* repl is the node stored in Replacements (Nil: none), descend tells      *)
(* whether Visit returned v (dst.Walk goes on into the children) or nil,   *)
(* panic whether the call panicked.                                        *)

TermFuncs == {"Msg", "Msgf", "Send"}

Continue == [repl |-> Nil, descend |-> TRUE, panic |-> FALSE]

\* lines 179-191
visitImportSpec(node, newAddr) ==
    IF node.path = ZerologImportPath
      THEN [repl |-> ImportSpec(newAddr, SlogImportPath, node.decs),
            descend |-> FALSE, panic |-> FALSE]
      ELSE Continue

\* lines 193-233
visitExprStmt(node, newAddr) ==
    IF node.x.kind # "CallExpr" THEN Continue
    ELSE IF node.x.fun.kind # "SelectorExpr" THEN Continue
    ELSE IF node.x.fun.sel \notin TermFuncs THEN Continue
    ELSE IF node.x.fun.x.kind # "CallExpr" THEN Continue
    ELSE LET r == extractZerologChain(node.x.fun.x, node.x.fun.sel, node.x.args)
         IN IF r.message = Panic
              THEN [repl |-> Nil, descend |-> FALSE, panic |-> TRUE]
            ELSE IF r.message = Nil THEN Continue
            ELSE [repl |-> ExprStmt(newAddr,
                                    buildSlogLogAttrsCall(r.level, r.message, r.slogAttrs),
                                    node.decs),
                  descend |-> FALSE, panic |-> FALSE]

visitNode(node, newAddr) ==
    IF node.kind = "ImportSpec" THEN visitImportSpec(node, newAddr)
    ELSE IF node.kind = "ExprStmt" THEN visitExprStmt(node, newAddr)
    ELSE Continue

-----------------------------------------------------------------------------
(* Rewrite Driver: the traversal of dst.Walk and the substitution of       *)
(* dstutil.Apply.  Only ImportSpec and ExprStmt nodes are queued: on every *)
(* other node Visit returns v at line 195 and changes nothing.             *)

RECURSIVE Flatten(_)
Flatten(ss) == IF ss = <<>> THEN <<>> ELSE Head(ss) \o Flatten(Tail(ss))

\* the ExprStmt nodes dst.Walk reaches first below expression e, in order
RECURSIVE stmtsBelow(_)
stmtsBelow(e) ==
    CASE e.kind = "CallExpr" ->
            stmtsBelow(e.fun) \o Flatten([i \in 1..Len(e.args) |-> stmtsBelow(e.args[i])])
      [] e.kind = "SelectorExpr" -> stmtsBelow(e.x)
      [] e.kind = "FuncLit" -> e.body
      [] OTHER -> <<>>

\* the nodes handed to Visit when the walk goes on below node
walkChildren(node) ==
    IF node.kind = "ExprStmt" THEN stmtsBelow(node.x) ELSE <<>>

\* the nodes dst.Walk starts from: the import specs, then the statements
walkRoots(f) == f.imports \o f.stmts

\* dstutil.Apply with the post function of replaceAndPrintDST: the children
\* are walked first, then a node that is a key of the map is replaced
RECURSIVE applyNode(_, _)
applyNode(n, R) ==
    CASE n.kind = "ExprStmt" ->
            IF n.addr \in DOMAIN R
              THEN [R[n.addr] EXCEPT !.x = applyNode(@, R)]
              ELSE [n EXCEPT !.x = applyNode(@, R)]
      [] n.kind = "ImportSpec" ->
            IF n.addr \in DOMAIN R THEN R[n.addr] ELSE n
      [] n.kind = "CallExpr" ->
            [n EXCEPT !.fun = applyNode(@, R),
                      !.args = [i \in 1..Len(n.args) |-> applyNode(n.args[i], R)]]
      [] n.kind = "SelectorExpr" -> [n EXCEPT !.x = applyNode(@, R)]
      [] n.kind = "FuncLit" ->
            [n EXCEPT !.body = [i \in 1..Len(n.body) |-> applyNode(n.body[i], R)]]
      [] OTHER -> n

replaceAndPrintDST(f, R) ==
    [imports |-> [i \in 1..Len(f.imports) |-> applyNode(f.imports[i], R)],
     stmts |-> [i \in 1..Len(f.stmts) |-> applyNode(f.stmts[i], R)]]

-----------------------------------------------------------------------------
(* The parsed files the tool is run on.  A file holds one import spec and  *)
(* one statement: a terminator called on a chain of field links that       *)
(* starts at a head of one of four shapes,                                 *)
(*   ident   <rcv>.<Level>()          the level call on a bare identifier  *)
(*   call    getLogger().<Level>()    the level call on a call             *)
(*   var     ev                       the links start at a variable        *)
(*   nonsel  newEvent()               the innermost callee is no selector  *)
(* Every argument is a node of its own (named after its position), and an *)
(* argument may be a function literal whose body holds a logging statement.*)

InputLevels == {"Trace", "Debug", "Info", "Warn", "Error", "Fatal", "Panic"}
InputReceivers == {"log", "logger"}
InputHeads ==
    {[shape |-> "ident", level |-> l, rcv |-> r] : l \in InputLevels, r \in InputReceivers}
    \cup {[shape |-> "call", level |-> "Error", rcv |-> "getLogger"],
          [shape |-> "var", level |-> "", rcv |-> "ev"],
          [shape |-> "nonsel", level |-> "", rcv |-> "newEvent"]}
\* the calls of a chain by method name and number of arguments
InputLinks == {<<"Str", 2>>, <<"Err", 1>>, <<"Foo", 1>>, <<"Warn", 0>>}
InputTerms == {"Msg", "Msgf", "Send", "Print"}
InputImports == {ZerologImportPath, "\"fmt\""}
InputNesting == {"none", "msg", "field"}

SeqsUpTo(S, n) == UNION {[1..k -> S] : k \in 0..n}

Inputs ==
    {p \in [imp : InputImports, head : InputHeads, links : SeqsUpTo(InputLinks, MaxLinks),
            term : InputTerms, nargs : 0..MaxTermArgs, nested : InputNesting] :
        /\ p.nested = "msg" => p.nargs >= 1
        /\ p.nested = "field" => Len(p.links) >= 1 /\ p.links[1][2] >= 1
        /\ p.nested # "none" => p.head \in {[shape |-> "ident", level |-> "Info", rcv |-> "log"],
                                           [shape |-> "var", level |-> "", rcv |-> "ev"]}}

ImportAddr == "&import"
StmtAddr == "&stmt"
InnerAddr == "&inner"
\* the address of the node allocated to replace the node at addr
NewAddr(addr) == "new(" \o addr \o ")"

\* log.Debug().Msg("inner")
InnerStmt ==
    ExprStmt(InnerAddr,
             CallExpr(SelectorExpr(CallExpr(SelectorExpr(Ident("log"), "Debug"), <<>>), "Msg"),
                      <<BasicLit("\"inner\"")>>),
             "// inner")

\* the j-th argument of the i-th link (links counted from the head outward)
LinkArg(p, i, j) ==
    IF p.nested = "field" /\ i = 1 /\ j = p.links[1][2]
      THEN FuncLit(<<InnerStmt>>)
      ELSE Ident("a" \o ToString(i) \o ToString(j))

LinkArgs(p, i) == [j \in 1..p.links[i][2] |-> LinkArg(p, i, j)]

\* the j-th argument of the terminator
TermArg(p, j) ==
    IF p.nested = "msg" /\ j = 1
      THEN CallExpr(FuncLit(<<InnerStmt>>), <<>>)
      ELSE BasicLit("\"m" \o ToString(j) \o "\"")

TermArgs(p) == [j \in 1..p.nargs |-> TermArg(p, j)]

ChainRoot(p) ==
    CASE p.head.shape = "ident" ->
            CallExpr(SelectorExpr(Ident(p.head.rcv), p.head.level), <<>>)
      [] p.head.shape = "call" ->
            CallExpr(SelectorExpr(CallExpr(Ident(p.head.rcv), <<>>), p.head.level), <<>>)
      [] p.head.shape = "var" -> Ident(p.head.rcv)
      [] OTHER -> CallExpr(Ident(p.head.rcv), <<>>)

\* the chain up to and including its n-th link
RECURSIVE Chain(_, _)
Chain(p, n) ==
    IF n = 0 THEN ChainRoot(p)
    ELSE CallExpr(SelectorExpr(Chain(p, n - 1), p.links[n][1]), LinkArgs(p, n))

ParsedStmt(p) ==
    ExprStmt(StmtAddr,
             CallExpr(SelectorExpr(Chain(p, Len(p.links)), p.term), TermArgs(p)),
             "// stmt")

ParsedFile(p) ==
    [imports |-> <<ImportSpec(ImportAddr, p.imp, "// import")>>,
     stmts |-> <<ParsedStmt(p)>>]

-----------------------------------------------------------------------------
(* processFile, one call of Visit at a time, and the tool run again.       *)

NoReplacements == [a \in {} |-> Nil]

MapperIdle ==
    /\ funcName = ""
    /\ args = <<>>
    /\ attr = Nil
    /\ mpc = "idle"

Init ==
    /\ input \in Inputs
    /\ parsed = ParsedFile(input)
    /\ file = parsed
    /\ Replacements = NoReplacements
    /\ todo = walkRoots(file)
    /\ pc = "walk"
    /\ pass = "first"
    /\ MapperIdle

\* dst.Walk hands the next node to RewriteVisitor.Visit
Visit ==
    /\ pc = "walk"
    /\ todo # <<>>
    /\ LET node == Head(todo)
           r == visitNode(node, NewAddr(node.addr))
       IN IF r.panic
            THEN /\ pc' = "panic"
                 /\ UNCHANGED <<Replacements, todo>>
            ELSE /\ pc' = pc
                 /\ IF r.repl # Nil
                      THEN Replacements' =
                                [a \in DOMAIN Replacements \cup {node.addr} |->
                                    IF a = node.addr THEN r.repl ELSE Replacements[a]]
                      ELSE UNCHANGED Replacements
                 /\ todo' = (IF r.descend THEN walkChildren(node) ELSE <<>>) \o Tail(todo)
    /\ UNCHANGED <<input, parsed, file, pass, mapperVars>>

\* processFile lines 89-92: nothing recorded, the file is left alone
NothingToTransform ==
    /\ pc = "walk"
    /\ todo = <<>>
    /\ DOMAIN Replacements = {}
    /\ pc' = "done"
    /\ UNCHANGED <<input, parsed, file, Replacements, todo, pass, mapperVars>>

\* processFile lines 94-117: the replacements are applied and the file written
Transform ==
    /\ pc = "walk"
    /\ todo = <<>>
    /\ DOMAIN Replacements # {}
    /\ file' = replaceAndPrintDST(file, Replacements)
    /\ pc' = "done"
    /\ UNCHANGED <<input, parsed, Replacements, todo, pass, mapperVars>>

\* the tool is run again on the file it wrote: processFile lines 70-87
RunAgain ==
    /\ pc = "done"
    /\ pass = "first"
    /\ pass' = "again"
    /\ Replacements' = NoReplacements
    /\ todo' = walkRoots(file)
    /\ pc' = "walk"
    /\ UNCHANGED <<input, parsed, file, mapperVars>>

Next == Visit \/ NothingToTransform \/ Transform \/ RunAgain

Spec == Init /\ [][Next]_vars

-----------------------------------------------------------------------------
(* The Field Mapper on its own: convertFieldToSlogAttr applied to every    *)
(* field method name of the table, and two names outside it, with up to    *)
(* MaxArgs arguments.                                                      *)

MapperNames ==
    {"Bool", "Dur", "Float32", "Float64", "Str", "Int", "Int8", "Int16", "Int32",
     "Int64", "Uint64", "Uint", "Uint8", "Uint16", "Uint32", "Time", "Err",
     "Interface", "Stack"}
MapperAtoms == {Ident("x"), BasicLit("1")}

IdleInput ==
    [imp |-> "\"fmt\"", head |-> [shape |-> "var", level |-> "", rcv |-> "ev"],
     links |-> <<>>, term |-> "Print", nargs |-> 0, nested |-> "none"]

InitMapper ==
    /\ funcName \in MapperNames
    /\ args \in SeqsUpTo(MapperAtoms, MaxArgs)
    /\ attr = Nil
    /\ mpc = "ready"
    /\ input = IdleInput
    /\ parsed = ParsedFile(input)
    /\ file = parsed
    /\ Replacements = NoReplacements
    /\ todo = <<>>
    /\ pc = "idle"
    /\ pass = "first"

\* one call of convertFieldToSlogAttr
Convert ==
    /\ mpc = "ready"
    /\ attr' = convertFieldToSlogAttr(funcName, args)
    /\ mpc' = "converted"
    /\ UNCHANGED <<funcName, args, progVars>>

NextMapper == Convert

SpecMapper == InitMapper /\ [][NextMapper]_vars

-----------------------------------------------------------------------------
(* What the properties below say about a run, read off the input shape.    *)

\* the statement of the file has a replacement recorded in the first run
Recorded == pass = "first" /\ StmtAddr \in DOMAIN Replacements

\* the rebuilt call recorded for the statement
NewCall == Replacements[StmtAddr].x

\* the positions of the chain's calls that bear a level name
LevelLinks(p) == {i \in 1..Len(p.links) : p.links[i][1] \in InputLevels}

\* the chain is <ident>.<Level>() followed by calls that are no level calls,
\* ended by Msg, Msgf or Send
GoodShape(p) ==
    /\ p.term \in {"Msg", "Msgf", "Send"}
    /\ IF LevelLinks(p) = {}
         THEN p.head.shape = "ident"
         ELSE LevelLinks(p) = {1} /\ p.head.shape = "var"

\* the method name of the level-establishing call of a chain of good shape
LevelName(p) == IF p.head.shape = "ident" THEN p.head.level ELSE p.links[1][1]

\* the positions of the field links F1..Fn of a chain of good shape
FirstField(p) == IF p.head.shape = "ident" THEN 1 ELSE 2
NumFields(p) == Len(p.links) + 1 - FirstField(p)
FieldPos(p, k) == FirstField(p) + k - 1

\* what the Field Mapper returns for the k-th field link
ConvertedField(p, k) ==
    convertFieldToSlogAttr(p.links[FieldPos(p, k)][1], LinkArgs(p, FieldPos(p, k)))

\* node e occurs in the tree t
RECURSIVE Occurs(_, _)
Occurs(e, t) ==
    \/ t = e
    \/ CASE t.kind = "CallExpr" ->
                Occurs(e, t.fun) \/ \E i \in 1..Len(t.args) : Occurs(e, t.args[i])
         [] t.kind = "SelectorExpr" -> Occurs(e, t.x)
         [] t.kind = "FuncLit" -> \E i \in 1..Len(t.body) : Occurs(e, t.body[i])
         [] t.kind = "ExprStmt" -> Occurs(e, t.x)
         [] OTHER -> FALSE

-----------------------------------------------------------------------------
(* C1.  All-or-nothing: a statement whose chain has a field link the Field *)
(* Mapper returns nil for gets no replacement recorded, and a statement    *)
(* that is converted has every one of its field links in the rebuilt call. *)
C1_AllOrNothing ==
    /\ (pass = "first" /\ GoodShape(input)
        /\ \E k \in 1..NumFields(input) : ConvertedField(input, k) = Nil)
          => StmtAddr \notin DOMAIN Replacements
    /\ Recorded => Len(NewCall.args) = 3 + NumFields(input)

(* C2.  Order preservation: the arguments of the rebuilt call after the    *)
(* context, the level and the message are exactly the converted field      *)
(* links F1..Fn, in source order.                                          *)
C2_OrderPreserved ==
    Recorded =>
        NewCall.args = SubSeq(NewCall.args, 1, 3)
                         \o [k \in 1..NumFields(input) |-> ConvertedField(input, k)]

(* C3.  Untouched code: a file that does not import the zerolog package    *)
(* gets no replacement recorded at all.                                    *)
C3_NoImportNoReplacement ==
    input.imp # ZerologImportPath => DOMAIN Replacements = {}

(* C4.  Idempotence: the tool run again on its own output records no       *)
(* replacement.                                                            *)
C4_Idempotent ==
    pass = "again" => DOMAIN Replacements = {}

(* C5.  Non-match is never an abort: Visit never panics, whatever the      *)
(* number of terminator arguments.                                         *)
C5_NeverPanics ==
    pc # "panic"

(* C6.  Message resolution: the third argument of the rebuilt call is the  *)
(* first terminator argument for Msg and Msgf and the literal              *)
(* "zerolog event" for Send; it is never absent, and no further terminator *)
(* argument occurs anywhere in the rebuilt call.                           *)
C6_MessageResolution ==
    Recorded =>
        /\ Len(NewCall.args) >= 3
        /\ NewCall.args[3] # Nil
        /\ NewCall.args[3] = IF input.term = "Send"
                               THEN BasicLit("\"zerolog event\"")
                               ELSE TermArg(input, 1)
        /\ \A j \in 1..input.nargs :
              (j >= 2 \/ input.term = "Send") => ~Occurs(TermArg(input, j), NewCall)

C6_Witness ==
    /\ Recorded
    /\ pc = "done"
    /\ input.term = "Msgf"
    /\ input.nargs >= 2
    /\ file.stmts[1].x.args[3] = TermArg(input, 1)

(* C7.  Severity mapping: the level argument of the rebuilt call is        *)
(* slog.Level<name> for Trace, Debug, Info, Warn and Error, and            *)
(* slog.LevelError for Fatal and Panic, whatever else the chain holds.     *)
ExpectedLevelConstant(name) ==
    CASE name = "Trace" -> "LevelTrace"
      [] name = "Debug" -> "LevelDebug"
      [] name = "Info" -> "LevelInfo"
      [] name = "Warn" -> "LevelWarn"
      [] name \in {"Error", "Fatal", "Panic"} -> "LevelError"

C7_SeverityMapping ==
    Recorded =>
        NewCall.args[2] =
            SelectorExpr(Ident("slog"), ExpectedLevelConstant(LevelName(input)))

C7_Witness ==
    /\ Recorded
    /\ pc = "done"
    /\ LevelName(input) = "Fatal"
    /\ Len(input.links) >= 1
    /\ file.stmts[1].x.args[2] = SelectorExpr(Ident("slog"), "LevelError")

(* C8.  A two-argument Uint64 field link becomes slog.Uint64(key, value),  *)
(* the constructor Uint, Uint8, Uint16 and Uint32 are converted to, with   *)
(* both arguments passed through.                                          *)
C8_Uint64Constructor ==
    (mpc = "converted" /\ funcName = "Uint64" /\ Len(args) = 2) =>
        attr = CallExpr(SelectorExpr(Ident("slog"), "Uint64"), args)

(* C9.  Widening conversions: with two arguments, Int8, Int16 and Int32    *)
(* give slog.Int(key, int(value)), Float32 gives                           *)
(* slog.Float64(key, float64(value)), and Uint, Uint8, Uint16 and Uint32   *)
(* give slog.Uint64(key, uint64(value)).                                   *)
Widened(target, conv, a) ==
    CallExpr(SelectorExpr(Ident("slog"), target),
             <<a[1], CallExpr(Ident(conv), <<a[2]>>)>>)

C9_WideningConversions ==
    (mpc = "converted" /\ Len(args) = 2) =>
        /\ funcName \in {"Int8", "Int16", "Int32"} => attr = Widened("Int", "int", args)
        /\ funcName = "Float32" => attr = Widened("Float64", "float64", args)
        /\ funcName \in {"Uint", "Uint8", "Uint16", "Uint32"} =>
              attr = Widened("Uint64", "uint64", args)

C9_Witness ==
    /\ mpc = "converted"
    /\ funcName = "Uint16"
    /\ args = <<Ident("x"), BasicLit("1")>>
    /\ attr.args[2].fun = Ident("uint64")

(* C10.  Chain-shape gate: a replacement is recorded for the statement     *)
(* only if the walk from the terminator's receiver inward reaches a        *)
(* level-named call on a bare identifier through calls whose receivers are *)
(* calls; every other shape gets no replacement.                           *)
C10_ChainShapeGate ==
    /\ pass = "first" =>
          (StmtAddr \in DOMAIN Replacements => GoodShape(input))
    /\ (pc = "done" /\ pass = "first" /\ ~GoodShape(input)) =>
          /\ file.stmts[1].addr = StmtAddr
          /\ file.stmts[1].x.fun.sel = input.term

C10_Witness ==
    /\ Recorded
    /\ pc = "done"
    /\ input.head.shape = "var"
    /\ Len(input.links) >= 2

====
